---- MODULE Spec2Model ----
(***************************************************************************)
(* Model of src/ytdl.py: the DownloadWorker thread (run, stop, the three   *)
(* download workflows, the progress hook), the YTDLWindow orchestration    *)
(* (start_download, update_progress, download_finished, closeEvent) and    *)
(* the format menu built by get_formats.                                   *)
(*                                                                         *)
(* Text (URLs, paths, percent strings) is a sequence of lexemes: short     *)
(* strings that the code's string operations never split.                  *)
(***************************************************************************)
EXTENDS Integers, Sequences, FiniteSets, TLC

\* ------------------------------------------------------------------ bounds
\* Worker objects alive at the same time (the code creates one per accepted start).
MaxWorkers == 2
\* Lines of a URL list file.
MaxLines == 2
\* Calls of the progress hook that yt_dlp makes for one worker.
MaxSamples == 2
\* Signals still waiting in the UI thread's queue when it handles a click on a
\* download button.
MaxPending == 1
\* Signals waiting in the UI thread's queue when a worker thread emits more.
MaxQueue == 1
\* Entries of the catalog yt_dlp returns for one URL.
MaxFormats == 3

Modes == {"single", "list", "playlist"}

\* ------------------------------------------------------------------ text
RECURSIVE LStrip(_, _)
LStrip(s, cs) == IF s # <<>> /\ Head(s) \in cs THEN LStrip(Tail(s), cs) ELSE s

RECURSIVE RStrip(_, _)
RStrip(s, cs) ==
    IF s # <<>> /\ s[Len(s)] \in cs THEN RStrip(SubSeq(s, 1, Len(s) - 1), cs) ELSE s

\* str.strip(): leading and trailing whitespace lexemes removed.
Whitespace == {" ", "\n"}
strip(s) == RStrip(LStrip(s, Whitespace), Whitespace)

\* str.strip("%")
strip_percent(s) == RStrip(LStrip(s, {"%"}), {"%"})

\* The first place where text s holds the lexemes pat one after the other, 0 when
\* it holds them nowhere.
Find(s, pat) ==
    LET at == {j \in 1..(Len(s) - Len(pat) + 1) : SubSeq(s, j, j + Len(pat) - 1) = pat}
    IN IF at = {} THEN 0 ELSE CHOOSE j \in at : \A i \in at : j <= i

\* `pat in s`
Within(pat, s) == Find(s, pat) # 0

\* s.split(pat): the pieces of s between the occurrences of pat, taken from the left.
RECURSIVE split(_, _)
split(s, pat) ==
    LET j == Find(s, pat)
    IN IF j = 0 THEN <<s>>
       ELSE <<SubSeq(s, 1, j - 1)>> \o split(SubSeq(s, j + Len(pat), Len(s)), pat)

\* str.lower() on one lexeme: only the lexemes with upper-case letters change.
lower(x) ==
    CASE x = "YouTube.com" -> "youtube.com"
      [] x = "HTTPS://" -> "https://"
      [] OTHER -> x

\* `domain in text` for one lexeme: the lexemes that hold the domain as a substring.
Contains(x, domain) ==
    \/ x = domain
    \/ domain = "youtube.com" /\ x \in {"notyoutube.com", "?q=youtube.com"}

youtube_domains == {"youtube.com", "youtu.be"}

\* DownloadWorker.is_valid_url / YTDLWindow.is_valid_url
is_valid_url(url) ==
    /\ url # <<>>
    /\ url[1] \in {"http://", "https://"}
    /\ \E domain \in youtube_domains : \E j \in 1..Len(url) : Contains(lower(url[j]), domain)

U1 == <<"https://", "youtu.be", "/a">>
U2 == <<"http://", "YouTube.com", "/b">>
BadScheme == <<"ftp://", "youtube.com", "/c">>
BadHost == <<"https://", "vimeo.com", "/d">>

\* What the user may have typed in a URL field, a file field, a folder field.
UrlInputs == {<<" ", "https://", "youtu.be", "/a", " ">>, BadScheme}
FileInputs == {<<"urls.txt">>, <<"missing.txt">>}
\* A list file whose name holds a text that update_progress looks for.
CompletedFile == <<"Download", " ", "completed", ".txt">>
DirInputs == {<<>>, <<"/dl">>}

\* os.path.isfile / os.path.isdir on the machine the program runs on.
isfile(p) == p \in {<<"urls.txt">>, CompletedFile}
isdir(p) == p = <<"/dl">>

\* ------------------------------------------------------------------ events
\* One emission of DownloadWorker.progress (k names the message template, a its
\* number, p its text) or of DownloadWorker.finished (k = "finished", a = 1 for True).
Ev(k, a, p) == [k |-> k, a |-> a, p |-> p]
Msg(k) == Ev(k, 0, <<>>)
Fin(ok) == Ev("finished", IF ok THEN 1 ELSE 0, <<>>)

\* The messages that tell the user of a failure.
FailureMsgs ==
    {"NoInternet", "Unexpected", "DownloadFailed", "PermissionDenied", "UnexpectedDownload",
     "NoValidUrls", "ItemFailed", "SomeFailed", "BatchError", "PlaylistFailed",
     "UnexpectedPlaylist", "NoValidInFile", "FileNotFound", "FilePermission",
     "BadEncoding", "ReadError"}

\* The text of a progress message, as the emitting line formats it. The texts that
\* update_progress looks for (": ", " - ", "Downloading:", "Download completed")
\* are written lexeme by lexeme wherever a template or a text of the environment
\* holds them; the other parts of a template are one lexeme each, and none of
\* them holds "Downloading:" or "Download completed". The numbers of a template
\* (the item count) are digits and a slash, written here as letters.
Colon == <<":", " ">>
Dash == <<" ", "-", " ">>
Retry == <<". Please try again.">>
CheckUrl == <<". Please check the URL or your internet connection.">>
message(ev) ==
    CASE ev.k = "Unexpected" ->
           <<"Unexpected error occurred">> \o Colon \o ev.p
               \o <<". Please try again or contact support.">>
      [] ev.k = "Downloading" ->
           <<"Downloading">> \o Colon \o ev.p \o Dash \o <<"Speed">> \o Colon \o <<"N/A">>
               \o Dash \o <<"ETA">> \o Colon \o <<"N/A">>
      [] ev.k = "Completed" ->
           <<"Download", " ", "completed", " ", "successfully! File saved to">> \o Colon \o ev.p
      [] ev.k = "StartingDownload" -> <<"Starting download for">> \o Colon \o ev.p
      [] ev.k = "StartingPlaylist" -> <<"Starting download for playlist">> \o Colon \o ev.p
      [] ev.k = "DownloadFailed" -> <<"Download failed">> \o Colon \o ev.p \o CheckUrl
      [] ev.k = "PlaylistFailed" -> <<"Playlist download failed">> \o Colon \o ev.p \o CheckUrl
      [] ev.k = "PermissionDenied" ->
           <<"Permission denied">> \o Colon \o ev.p
               \o <<". Please ensure you have write access to the save location.">>
      [] ev.k = "UnexpectedDownload" ->
           <<"Unexpected error during download">> \o Colon \o ev.p \o Retry
      [] ev.k = "UnexpectedPlaylist" ->
           <<"Unexpected error during playlist download">> \o Colon \o ev.p \o Retry
      [] ev.k = "BatchError" -> <<"Error during batch download">> \o Colon \o ev.p \o Retry
      [] ev.k = "ItemStarted" -> <<"Downloading video i/n">> \o Colon \o ev.p
      [] ev.k = "ItemFailed" ->
           <<"Failed to download", " ">> \o ev.p \o <<". Skipping to the next URL...">>
      [] ev.k = "ReadingFile" -> <<"Reading URL file">> \o Colon \o ev.p
      [] ev.k = "FileNotFound" ->
           <<"File not found">> \o Colon \o ev.p \o <<". Please select a valid file.">>
      [] ev.k = "FilePermission" ->
           <<"Permission denied accessing file">> \o Colon \o ev.p
               \o <<". Please check file permissions.">>
      [] ev.k = "BadEncoding" ->
           <<"Invalid file encoding">> \o Colon \o ev.p
               \o <<". Please use a UTF-8 encoded file.">>
      [] ev.k = "ReadError" -> <<"Error reading file">> \o Colon \o ev.p \o Retry
      [] ev.k = "HookKeyError" ->
           <<"Progress update error">> \o Colon \o <<"Missing key 'status'">> \o Retry
      [] ev.k = "NoInternet" ->
           <<"No internet connection detected. Please check your connection and try again.">>
      [] ev.k = "Stopped" -> <<"Download stopped by user.">>
      [] ev.k = "AudioOnly" -> <<"Downloading audio only...">>
      [] ev.k = "VideoOnly" -> <<"Downloading video only (no audio)...">>
      [] ev.k = "VideoAudio" -> <<"Downloading video and audio together...">>
      [] ev.k = "NoValidUrls" ->
           <<"No valid URLs found in the file. Please check the file and try again.">>
      [] ev.k = "FoundUrls" -> <<"Found n URLs in the file. Starting batch download...">>
      [] ev.k = "AllOk" -> <<"All videos in the list downloaded successfully!">>
      [] ev.k = "SomeFailed" ->
           <<"Some videos failed to download. Check the log for details.">>
      [] ev.k = "NoValidInFile" -> <<"No valid YouTube URLs found in the file.">>

\* ------------------------------------------------------------------ progress samples
\* The dict yt_dlp hands to a progress hook. status "MISSING": no 'status' key.
\* pk: the '_percent_str' entry is a string (pct), missing, or not a string;
\* rest: the same for '_speed_str' and '_eta_str'.
Sample(status, pk, pct, rest) == [status |-> status, pk |-> pk, pct |-> pct, rest |-> rest]

P50 == <<" ", "50", ".", "0", "%">>
P7 == <<"7", ".", "%">>
PExp == <<"+", ".", "50", "e", "7", "%">>
PNaN == <<"nan", "%">>
PCut == <<"7", " ", "-">>
PNA == <<"N/A">>
DefaultPercent == <<"0", "%">>

DownloadingSamples ==
    {Sample("downloading", "str", P50, "str"),
     Sample("downloading", "str", P7, "str"),
     Sample("downloading", "str", PExp, "str"),
     Sample("downloading", "str", PNaN, "str"),
     Sample("downloading", "str", PCut, "str"),
     Sample("downloading", "str", PNA, "str"),
     Sample("downloading", "missing", <<>>, "missing"),
     Sample("downloading", "nonstr", <<>>, "str"),
     Sample("MISSING", "str", P50, "str")}
FinishedSample == Sample("finished", "missing", <<>>, "missing")

\* DownloadWorker.progress_hook: the events it emits and the exception that leaves it.
HookResult(exc, evs) == [exc |-> exc, evs |-> evs]

progress_hook(running, save_location, d) ==
    IF ~running THEN HookResult("none", <<>>)
    ELSE IF d.status = "MISSING" THEN HookResult("none", <<Msg("HookKeyError")>>)
    ELSE IF d.status = "downloading" THEN
        IF d.pk = "nonstr" \/ d.rest = "nonstr" THEN HookResult("AttributeError", <<>>)
        ELSE HookResult("none",
                 <<Ev("Downloading", 0, strip(IF d.pk = "missing" THEN DefaultPercent ELSE d.pct))>>)
    ELSE IF d.status = "finished" THEN
        HookResult("none", <<Ev("Completed", 0, save_location)>>)
    ELSE HookResult("none", <<>>)

\* ------------------------------------------------------------------ progress bar
\* The lexemes made of decimal digits, and int() of one of them.
DigitLexemes == {"0", "7", "50", "100", "150", "360", "720", "1080"}
IntOf(x) ==
    CASE x = "0" -> 0 [] x = "7" -> 7 [] x = "50" -> 50 [] x = "100" -> 100 [] x = "150" -> 150
      [] x = "360" -> 360 [] x = "720" -> 720 [] x = "1080" -> 1080

\* str(n) for the numbers the model formats.
StrOf(n) == CHOOSE x \in DigitLexemes : IntOf(x) = n

\* The decimal digits of a digit lexeme.
DigitsOf(x) ==
    CASE x = "0" -> <<0>> [] x = "7" -> <<7>> [] x = "50" -> <<5, 0>> [] x = "100" -> <<1, 0, 0>>
      [] x = "150" -> <<1, 5, 0>> [] x = "360" -> <<3, 6, 0>> [] x = "720" -> <<7, 2, 0>>
      [] x = "1080" -> <<1, 0, 8, 0>>

\* The number of digit lexemes text s starts with.
RECURSIVE LeadDigits(_)
LeadDigits(s) ==
    IF s # <<>> /\ Head(s) \in DigitLexemes THEN 1 + LeadDigits(Tail(s)) ELSE 0

\* The digits of a run of digit lexemes, written one after the other.
RECURSIVE RunDigits(_)
RunDigits(s) == IF s = <<>> THEN <<>> ELSE DigitsOf(Head(s)) \o RunDigits(Tail(s))

\* An integer past every range the program compares with stands for the larger ones.
Huge == 1000000000

\* The number a sequence of decimal digits writes.
RECURSIVE NatOf(_)
NatOf(ds) ==
    LET sig == LStrip(ds, {0})
    IN IF sig = <<>> THEN 0
       ELSE IF Len(sig) > 9 THEN Huge
       ELSE 10 * NatOf(SubSeq(sig, 1, Len(sig) - 1)) + sig[Len(sig)]

\* float(s) reads a text with the white space around it dropped and without its
\* sign, "+" or "-".
Unsigned(s) ==
    LET t == strip(s) IN IF t # <<>> /\ Head(t) \in {"+", "-"} THEN Tail(t) ELSE t

\* The sign of the number that text s writes.
SignOf(s) == LET t == strip(s) IN IF t # <<>> /\ Head(t) = "-" THEN -1 ELSE 1

\* The place of the exponent mark in text u, 0 when it has none.
ExpAt(u) ==
    IF \E j \in 1..Len(u) : u[j] = "e"
    THEN CHOOSE j \in 1..Len(u) : u[j] = "e" /\ \A i \in 1..(j - 1) : u[i] # "e"
    ELSE 0

\* The text before the exponent mark, and the text after it.
Mantissa(u) == IF ExpAt(u) = 0 THEN u ELSE SubSeq(u, 1, ExpAt(u) - 1)
Exponent(u) == IF ExpAt(u) = 0 THEN <<>> ELSE SubSeq(u, ExpAt(u) + 1, Len(u))

\* Digits, digits with a point, or a point with digits on either side of it.
IsDecimal(m) ==
    LET a == LeadDigits(m)
        rest == SubSeq(m, a + 1, Len(m))
    IN \/ a >= 1 /\ rest = <<>>
       \/ /\ rest # <<>>
          /\ Head(rest) = "."
          /\ LeadDigits(Tail(rest)) = Len(rest) - 1
          /\ a + Len(rest) - 1 >= 1

\* The digits of an exponent, after its sign.
ExpDigits(x) == IF x # <<>> /\ Head(x) \in {"+", "-"} THEN Tail(x) ELSE x

\* The texts float() reads as infinity and as not-a-number.
NonFinite == {<<"inf">>, <<"nan">>}

\* float(s) of a text of the model's lexemes returns (TRUE) or raises ValueError.
IsFloat(s) ==
    LET u == Unsigned(s)
    IN \/ u \in NonFinite
       \/ /\ IsDecimal(Mantissa(u))
          /\ ExpAt(u) # 0 =>
               ExpDigits(Exponent(u)) # <<>>
               /\ LeadDigits(ExpDigits(Exponent(u))) = Len(ExpDigits(Exponent(u)))

\* The digits of the number text u writes, from its first digit that is not 0 on.
Significand(u) ==
    LET m == Mantissa(u)
        a == LeadDigits(m)
    IN LStrip(RunDigits(SubSeq(m, 1, a))
                \o (IF a + 1 < Len(m) THEN RunDigits(SubSeq(m, a + 2, Len(m))) ELSE <<>>),
              {0})

\* The number of digits left of the point when the number text u writes is written
\* without exponent and without leading zeros (0 or less: it is below 1).
Magnitude(u) ==
    LET m == Mantissa(u)
        a == LeadDigits(m)
        whole == RunDigits(SubSeq(m, 1, a))
        frac == IF a + 1 < Len(m) THEN RunDigits(SubSeq(m, a + 2, Len(m))) ELSE <<>>
        x == Exponent(u)
        e == IF x = <<>> THEN 0
             ELSE (IF Head(x) = "-" THEN -1 ELSE 1) * NatOf(RunDigits(ExpDigits(x)))
    IN Len(whole) + e - (Len(whole \o frac) - Len(Significand(u)))

\* The first digits of 2^1024 - 2^970, a number of 309 digits: a text that writes
\* this number or a larger one is read by float() as infinity.
DoubleLimit == <<1, 7, 9, 7, 6, 9, 3, 1, 3, 4, 8, 6, 2, 3, 1, 5, 8, 0, 7, 9>>

\* ds writes a number that is no less than the one ts writes, both read as
\* 0.d1 d2 d3 ...
RECURSIVE AtLeast(_, _)
AtLeast(ds, ts) ==
    IF ts = <<>> THEN TRUE
    ELSE IF ds = <<>> THEN \A j \in 1..Len(ts) : ts[j] = 0
    ELSE IF Head(ds) # Head(ts) THEN Head(ds) > Head(ts)
    ELSE AtLeast(Tail(ds), Tail(ts))

\* float(u) is infinity although u writes digits: the number is past the doubles.
Overflows(u) ==
    /\ Significand(u) # <<>>
    /\ \/ Magnitude(u) > 309
       \/ Magnitude(u) = 309 /\ AtLeast(Significand(u), DoubleLimit)

\* int(float(s)) returns: it raises OverflowError for infinity, ValueError for
\* not-a-number.
IsFinite(s) == Unsigned(s) \notin NonFinite /\ ~Overflows(Unsigned(s))

\* int(float(s)) for a text float() reads as a finite number: the digits left of
\* the point once the exponent has moved it, with the sign.
IntOfFloat(s) ==
    LET u == Unsigned(s)
        m == Mantissa(u)
        a == LeadDigits(m)
        whole == RunDigits(SubSeq(m, 1, a))
        frac == IF a + 1 < Len(m) THEN RunDigits(SubSeq(m, a + 2, Len(m))) ELSE <<>>
        x == Exponent(u)
        e == IF x = <<>> THEN 0
             ELSE (IF Head(x) = "-" THEN -1 ELSE 1) * NatOf(RunDigits(ExpDigits(x)))
        ds == whole \o frac
        p == Len(whole) + e
        n == IF p <= 0 \/ LStrip(ds, {0}) = <<>> THEN 0
             ELSE IF p <= Len(ds) THEN NatOf(SubSeq(ds, 1, p))
             ELSE IF p - Len(ds) > 9 THEN Huge
             ELSE NatOf(ds \o [j \in 1..(p - Len(ds)) |-> 0])
    IN SignOf(s) * n

\* QProgressBar.setValue with minimum 0 and maximum 100: a value outside is ignored.
setValue(old, v) == IF v >= 0 /\ v <= 100 THEN v ELSE old

\* YTDLWindow.update_progress: the progress bar's value after the message of `ev`
\* is handled. A message that holds "Downloading:" is cut at its first " - ", and
\* the piece after the first ": " of what is left is read as the percent; with no
\* such piece the IndexError is caught at line 638.
update_progress(old, ev) ==
    IF Within(<<"Downloading", ":">>, message(ev)) THEN
        LET parts == split(message(ev), Dash)
            pieces == split(parts[1], Colon)
        IN IF Len(pieces) < 2 THEN old
           ELSE LET percent_str == strip_percent(pieces[2])
                IN IF IsFloat(percent_str) /\ IsFinite(percent_str)
                   THEN setValue(old, IntOfFloat(percent_str))
                   ELSE old
    ELSE IF Within(<<"Download", " ", "completed">>, message(ev)) THEN setValue(old, 100)
    ELSE old

\* ------------------------------------------------------------------ list files
\* Mutant: an invalid line ends the reading.
RECURSIVE read_lines_StopAtInvalid(_)
read_lines_StopAtInvalid(lines) ==
    IF lines = <<>> THEN <<>>
    ELSE LET url == strip(Head(lines))
         IN IF url # <<>> /\ is_valid_url(url)
            THEN <<url>> \o read_lines_StopAtInvalid(Tail(lines))
            ELSE <<>>

\* DownloadWorker.read_url_file on a file that could be opened: the stripped lines
\* that are non-empty and valid, in file order.
RECURSIVE read_lines(_)
read_lines(lines) ==
    IF lines = <<>> THEN <<>>
    ELSE LET url == strip(Head(lines))
         IN IF url # <<>> /\ is_valid_url(url) THEN <<url>> \o read_lines(Tail(lines))
            ELSE read_lines(Tail(lines))

\* The lines a list file may hold.
FileLines == {U1 \o <<"\n">>, <<" ">> \o U2 \o <<"\n">>, <<"\n">>, BadHost \o <<"\n">>}

RECURSIVE SeqsUpTo(_, _)
SeqsUpTo(S, n) ==
    IF n = 0 THEN {<<>>}
    ELSE LET shorter == SeqsUpTo(S, n - 1)
         IN shorter \cup {Append(s, x) : s \in {t \in shorter : Len(t) = n - 1}, x \in S}

ListFiles == SeqsUpTo(FileLines, MaxLines)

\* ------------------------------------------------------------------ state
VARIABLES
    workers,   \* the DownloadWorker objects that exist: id -> fields, position, emissions
    worker,    \* YTDLWindow.worker: 0 for None, else the id of a DownloadWorker
    mutex,     \* DownloadWorker._mutex, shared by all workers: 0 free, else the holder
    queue,     \* signals emitted on worker threads and posted to the UI thread, in order
    btn,       \* the three download buttons: mode -> enabled
    bar,       \* progress_bar.value()
    ui,        \* the UI thread: "open", "stopping" (inside worker.stop()), "waiting"
               \* (inside worker.wait()), "closed" (closeEvent returned), "exited"
    menu,      \* format_combo: the entries, each a label kind, a resolution, a data value
    current,   \* format_combo.currentIndex() + 1
    catalog    \* get_formats: info['formats'] of the last extract_info that returned

vars == <<workers, worker, mutex, queue, btn, bar, ui, menu, current, catalog>>

Ids == 1..MaxWorkers

\* No object: the value of an id that names no DownloadWorker.
NoWorker ==
    [pc |-> "none", then |-> "none", out |-> <<>>, mode |-> "single", url |-> <<>>,
     dest |-> <<>>, fmt |-> <<>>, running |-> TRUE, lines |-> <<>>, urls |-> <<>>, i |-> 0,
     success |-> TRUE, k |-> 0, calls |-> 0, log |-> <<>>]

\* DownloadWorker.__init__ followed by QThread.start(). `calls` counts the calls made
\* into yt_dlp (extract_info, download), `k` the calls of the hook that yt_dlp
\* has made; `lines` is the content read_url_file found in the list file, kept
\* until the worker's next step after download_list has its URLs; `out` holds
\* the signals the thread is about to emit, one at a step, before it goes on at
\* `then`; `log` holds what the object has emitted.
DownloadWorker(mode, url_or_file, save_location, format_id) ==
    [NoWorker EXCEPT !.pc = "start", !.mode = mode, !.url = url_or_file,
                     !.dest = save_location, !.fmt = format_id]

\* QThread.isRunning(): started and not yet finished.
isRunning(wr) == wr.pc \notin {"none", "done"}

\* The session of a worker is over once it has emitted finished.
Terminal(wr) == \E j \in 1..Len(wr.log) : wr.log[j].k = "finished"

\* Reference counting: a worker that the window no longer holds and whose thread is
\* over is freed.
Collect(ws, slot) ==
    [w \in Ids |-> IF ws[w].pc = "done" /\ w # slot THEN NoWorker ELSE ws[w]]

\* The first entry of the format menu, present from construction on.
BestEntry == [kind |-> "best", res |-> <<>>, data |-> <<"best">>]

\* YTDLWindow.__init__: no worker, the buttons enabled when ffmpeg is installed, the
\* progress bar with the range 0..100 and no value yet (QProgressBar starts at -1).
Init ==
    /\ workers = [w \in Ids |-> NoWorker]
    /\ worker = 0
    /\ mutex = 0
    /\ queue = <<>>
    /\ \E ffmpeg \in BOOLEAN : btn = [m \in Modes |-> ffmpeg]
    /\ bar = -1
    /\ ui = "open"
    /\ menu = <<BestEntry>>
    /\ current = 1
    /\ catalog = <<>>

\* ------------------------------------------------------------------ worker thread
\* pyqtSignal.emit on the thread of worker w, which is left as `wr`: the signals
\* `now` are posted to the UI thread with the button the start connected, and the
\* signals `later` are still to be emitted. While the window is open the UI thread
\* takes the signals posted; at most MaxQueue wait when more are posted.
Emit(w, wr, now, later) ==
    /\ ui # "exited"
    /\ workers' = Collect([workers EXCEPT ![w] =
                     IF later = <<>> THEN [wr EXCEPT !.log = @ \o now]
                     ELSE [wr EXCEPT !.log = @ \o now, !.pc = "emit", !.then = wr.pc,
                                     !.out = later]],
                     worker)
    /\ IF now # <<>>
       THEN /\ ui = "open" => Len(queue) <= MaxQueue
            /\ queue' = queue \o [j \in 1..Len(now) |-> [ev |-> now[j], button |-> wr.mode]]
       ELSE UNCHANGED queue
    /\ UNCHANGED <<worker, btn, bar, ui, menu, current, catalog>>

\* A step of worker w's thread that leaves it as `wr` and has `evs` to emit: it
\* ends with the first emission, the others follow one at a step.
WorkerStep(w, wr, evs) ==
    IF evs = <<>> THEN Emit(w, wr, <<>>, <<>>)
    ELSE Emit(w, wr, <<Head(evs)>>, Tail(evs))

\* The next emission of a thread that has signals to emit.
emit(w) ==
    /\ workers[w].pc = "emit"
    /\ LET wr == workers[w]
           rest == Tail(wr.out)
       IN Emit(w, IF rest = <<>> THEN [wr EXCEPT !.pc = wr.then, !.then = "none", !.out = <<>>]
                  ELSE [wr EXCEPT !.out = rest],
               <<Head(wr.out)>>, <<>>)
    /\ UNCHANGED mutex

\* Mutant: run without the class-wide mutex.
CanLock_NoMutex(m) == TRUE

\* QMutex.lock() returns once no thread holds the mutex.
CanLock(m) == m = 0

\* run: self._mutex.lock()
run_lock(w) ==
    /\ workers[w].pc = "start"
    /\ CanLock(mutex)
    /\ mutex' = w
    /\ WorkerStep(w, [workers[w] EXCEPT !.pc = "net"], <<>>)

\* Mutant: the `return` after the failed network check is missing.
run_dispatch_NoReturn(online, mode) ==
    [pc |-> IF mode = "single" THEN "single" ELSE IF mode = "list" THEN "read" ELSE "playlist",
     evs |-> IF online THEN <<>> ELSE <<Msg("NoInternet"), Fin(FALSE)>>]

\* Mutant: the failed network check ends the session without a message.
run_dispatch_Silent(online, mode) ==
    IF ~online THEN [pc |-> "unlock", evs |-> <<Fin(FALSE)>>]
    ELSE [pc |-> IF mode = "single" THEN "single" ELSE IF mode = "list" THEN "read"
                 ELSE "playlist",
          evs |-> <<>>]

\* run, after check_network() returned `online`: where the thread goes and what it emits.
run_dispatch(online, mode) ==
    IF ~online THEN [pc |-> "unlock", evs |-> <<Msg("NoInternet"), Fin(FALSE)>>]
    ELSE IF mode = "single" THEN [pc |-> "single", evs |-> <<>>]
    ELSE IF mode = "list" THEN [pc |-> "read", evs |-> <<>>]
    ELSE IF mode = "playlist" THEN [pc |-> "playlist", evs |-> <<>>]
    ELSE [pc |-> "unlock",
          evs |-> <<Ev("Unexpected", 0, <<"Invalid download mode">>), Fin(FALSE)>>]

\* run: check_network() and the dispatch on the mode
check_network(w) ==
    /\ workers[w].pc = "net"
    /\ \E online \in BOOLEAN :
         LET d == run_dispatch(online, workers[w].mode)
         IN WorkerStep(w, [workers[w] EXCEPT !.pc = d.pc], d.evs)
    /\ UNCHANGED mutex

\* What yt_dlp may do with a call: return, or raise.
Exceptions == {"DownloadError", "PermissionError", "Exception"}
Outcomes == {"ok"} \cup Exceptions

\* str(e) of the AttributeError that str.strip raises on a value that is no string.
StripError == <<"'NoneType' object has no attribute 'strip'">>

\* The except clauses of download_single and download_playlist: the message emitted.
except_message(mode, exc) ==
    IF mode = "single" THEN
        IF exc = "DownloadError" THEN "DownloadFailed"
        ELSE IF exc = "PermissionError" THEN "PermissionDenied"
        ELSE "UnexpectedDownload"
    ELSE
        IF exc = "DownloadError" THEN "PlaylistFailed"
        ELSE IF exc = "PermissionError" THEN "PermissionDenied"
        ELSE "UnexpectedPlaylist"

\* A step's effect on the worker: its fields after it and the events it emits.
Effect(wr, evs) == [wr |-> wr, evs |-> evs]

\* An exception raised inside the yt_dlp calls of worker wr, by workflow. The
\* messages of the except clauses carry str(e), which is `text`.
on_exception(wr, exc, text) ==
    IF wr.mode = "list" THEN
        IF exc = "DownloadError" THEN
            Effect([wr EXCEPT !.success = FALSE, !.i = @ + 1, !.pc = "check"],
                   <<Ev("ItemFailed", wr.i, wr.urls[wr.i] \o Colon \o text)>>)
        ELSE Effect([wr EXCEPT !.pc = "unlock"], <<Ev("BatchError", 0, text), Fin(FALSE)>>)
    ELSE Effect([wr EXCEPT !.pc = "unlock"],
                <<Ev(except_message(wr.mode, exc), 0, text), Fin(FALSE)>>)

\* download_single, lines 77-109: the message that names what is downloaded.
is_audio_only(format_id) == \E j \in 1..Len(format_id) : format_id[j] = "_audio_only"
is_video_only(format_id) == \E j \in 1..Len(format_id) : format_id[j] = "_video_only"
format_message(format_id) ==
    IF is_audio_only(format_id) THEN "AudioOnly"
    ELSE IF is_video_only(format_id) THEN "VideoOnly"
    ELSE "VideoAudio"

\* download_single, line 79: the format identifier without the marks of the menu.
base_format_id(format_id) ==
    IF format_id = <<"best">> THEN format_id
    ELSE SelectSeq(format_id, LAMBDA x : x \notin {"_video_only", "_audio_only"})

\* download_single, lines 88-109: ydl_opts['format'], the selector handed to yt_dlp.
format_selector(format_id) ==
    IF is_audio_only(format_id) THEN <<"bestaudio[ext=mp4]", "/", "bestaudio">>
    ELSE IF is_video_only(format_id) THEN base_format_id(format_id)
    ELSE IF base_format_id(format_id) = <<"best">> THEN
        <<"bestvideo[ext=mp4]", "+", "bestaudio[ext=mp4]", "/", "best[ext=mp4]">>
    ELSE base_format_id(format_id) \o <<"+", "bestaudio[ext=mp4]", "/", "best[ext=mp4]">>

\* download_single, lines 77-109: the options are built and the message that names
\* what is downloaded is emitted; the thread then calls extract_info.
download_single(w) ==
    /\ workers[w].pc = "single"
    /\ WorkerStep(w, [workers[w] EXCEPT !.pc = "probe"],
                  <<Msg(format_message(workers[w].fmt))>>)
    /\ UNCHANGED mutex

\* download_single, lines 112-115 and 117-125, download_playlist, lines 176-179 and
\* 181-189: extract_info returned or raised; after a return ydl.download is called.
probe(wr, o, text) ==
    LET called == [wr EXCEPT !.calls = @ + 1]
    IN IF o = "ok" THEN
           Effect([called EXCEPT !.calls = @ + 1, !.pc = "fetch"],
                  <<Ev(IF wr.mode = "single" THEN "StartingDownload" ELSE "StartingPlaylist",
                       0, text)>>)
       ELSE on_exception(called, o, text)

\* The call of extract_info in download_single ends.
extract_info(w, env) ==
    /\ workers[w].pc = "probe"
    /\ \E o \in env.outcomes : \E text \in env.texts :
         LET e == probe(workers[w], o, text) IN WorkerStep(w, e.wr, e.evs)
    /\ UNCHANGED mutex

\* download_playlist: the options are built and the call of extract_info ends.
download_playlist(w, env) ==
    /\ workers[w].pc = "playlist"
    /\ \E o \in env.outcomes : \E text \in env.texts :
         LET e == probe(workers[w], o, text) IN WorkerStep(w, e.wr, e.evs)
    /\ UNCHANGED mutex

\* yt_dlp calls the progress hook with sample d during ydl.download: the hook reads
\* the stop flag and the sample; an exception that leaves it leaves ydl.download.
sample(wr, d) ==
    LET r == progress_hook(wr.running, wr.dest, d)
    IN IF r.exc # "none" THEN on_exception(wr, r.exc, StripError)
       ELSE Effect([wr EXCEPT !.k = @ + 1], r.evs)

\* A call of the hook inside ydl.download. What the hook emits it emits at a later
\* step: the stop flag, read at line 62, may be cleared by the UI thread before
\* the emission of line 68 or 70.
engine_sample(w, env) ==
    /\ workers[w].pc = "fetch"
    /\ workers[w].k < MaxSamples
    /\ \E d \in env.samples :
         LET e == sample(workers[w], d) IN Emit(w, e.wr, <<>>, e.evs)
    /\ UNCHANGED mutex

\* ydl.download ends: it raises or it returns. Then the rest of the workflow up to
\* its next call.
download_returns(wr, o, text) ==
    IF o = "ok" THEN
        IF wr.mode = "list" THEN Effect([wr EXCEPT !.i = @ + 1, !.pc = "check"], <<>>)
        ELSE Effect([wr EXCEPT !.pc = "unlock"], <<Fin(TRUE)>>)
    ELSE on_exception(wr, o, text)

\* A call of ydl.download ends, whatever samples the hook was called with; the
\* text is that of the exception raised.
engine_return(w, env) ==
    /\ workers[w].pc = "fetch"
    /\ \E o \in env.outcomes : \E text \in (IF o = "ok" THEN {<<>>} ELSE env.texts) :
         LET e == download_returns(workers[w], o, text) IN WorkerStep(w, e.wr, e.evs)
    /\ UNCHANGED mutex

\* ------------------------------------------------------------------ list workflow
\* What opening and reading the list file may do.
ReadErrors == {"FileNotFoundError", "PermissionError", "UnicodeDecodeError", "Exception"}

\* DownloadWorker.read_url_file: the URLs returned and the messages emitted. `lines`
\* is the file's content when `err` is "none".
read_url_file(path, err, lines, text) ==
    LET reading == <<Ev("ReadingFile", 0, path)>>
    IN IF err = "none" THEN
           LET urls == read_lines(lines)
           IN [urls |-> urls,
               evs |-> reading \o (IF urls = <<>> THEN <<Msg("NoValidInFile")>> ELSE <<>>)]
       ELSE [urls |-> <<>>,
             evs |-> reading \o
                     <<CASE err = "FileNotFoundError" -> Ev("FileNotFound", 0, path)
                         [] err = "PermissionError" -> Ev("FilePermission", 0, path)
                         [] err = "UnicodeDecodeError" -> Ev("BadEncoding", 0, path)
                         [] OTHER -> Ev("ReadError", 0, text)>>]

\* Mutant: the `return` after the empty result is missing.
download_list_begin_NoReturn(wr, err, lines, text) ==
    LET r == read_url_file(wr.url, err, lines, text)
    IN Effect([wr EXCEPT !.lines = lines, !.urls = r.urls, !.i = 1, !.success = TRUE,
                         !.pc = "check"],
              r.evs \o (IF r.urls = <<>> THEN <<Msg("NoValidUrls"), Fin(FALSE)>>
                                          ELSE <<Ev("FoundUrls", Len(r.urls), <<>>)>>))

\* download_list, lines 129-145: the file is read; an empty result ends the batch.
download_list_begin(wr, err, lines, text) ==
    LET r == read_url_file(wr.url, err, lines, text)
    IN IF r.urls = <<>> THEN
           Effect([wr EXCEPT !.lines = lines, !.pc = "unlock"],
                  r.evs \o <<Msg("NoValidUrls"), Fin(FALSE)>>)
       ELSE Effect([wr EXCEPT !.lines = lines, !.urls = r.urls, !.i = 1, !.success = TRUE,
                              !.pc = "check"],
                   r.evs \o <<Ev("FoundUrls", Len(r.urls), <<>>)>>)

\* download_list calls read_url_file, which emits its first message (line 194) and
\* then opens the file.
download_list(w) ==
    /\ workers[w].pc = "read"
    /\ WorkerStep(w, [workers[w] EXCEPT !.pc = "open"],
                  <<Ev("ReadingFile", 0, workers[w].url)>>)
    /\ UNCHANGED mutex

\* read_url_file, lines 195-214, and download_list up to the loop: the file was
\* read, or could not be; the messages after the first one are emitted.
open_file(w, env) ==
    /\ workers[w].pc = "open"
    /\ \/ \E lines \in env.files :
            LET e == download_list_begin(workers[w], "none", lines, <<>>)
            IN WorkerStep(w, e.wr, Tail(e.evs))
       \/ \E err \in env.readErrors :
            \E text \in (IF err = "Exception" THEN env.texts ELSE {<<>>}) :
              LET e == download_list_begin(workers[w], err, <<>>, text)
              IN WorkerStep(w, e.wr, Tail(e.evs))
    /\ UNCHANGED mutex

\* download_list, lines 146-148: the loop head. The loop ends when the URLs are
\* used up, or when the worker was told to stop.
loop_head(wr) ==
    IF wr.i > Len(wr.urls) THEN "end"
    ELSE IF ~wr.running THEN "end"
    ELSE "item"

list_next(w) ==
    /\ workers[w].pc = "check"
    /\ WorkerStep(w, [workers[w] EXCEPT !.lines = <<>>, !.pc = loop_head(workers[w])], <<>>)
    /\ UNCHANGED mutex

\* download_list, lines 149-152: the item is announced and ydl.download is called.
list_item(w) ==
    /\ workers[w].pc = "item"
    /\ LET wr == workers[w]
       IN WorkerStep(w, [wr EXCEPT !.calls = @ + 1, !.pc = "fetch"],
                     <<Ev("ItemStarted", wr.i, wr.urls[wr.i])>>)
    /\ UNCHANGED mutex

\* download_list, lines 156-160: the summary and the terminal signal.
list_result(wr) ==
    <<Msg(IF wr.success THEN "AllOk" ELSE "SomeFailed"), Fin(wr.success)>>

list_end(w) ==
    /\ workers[w].pc = "end"
    /\ WorkerStep(w, [workers[w] EXCEPT !.pc = "unlock"], list_result(workers[w]))
    /\ UNCHANGED mutex

\* run: finally: self._mutex.unlock()
run_unlock(w) ==
    /\ workers[w].pc = "unlock"
    /\ mutex' = 0
    /\ WorkerStep(w, [workers[w] EXCEPT !.lines = <<>>, !.pc = "exit"], <<>>)

\* run has returned; the thread ends and isRunning() turns False. Nothing reads the
\* fields of the object from here on, and it emits nothing more.
Finished == [NoWorker EXCEPT !.pc = "done"]

thread_exit(w) ==
    /\ workers[w].pc = "exit"
    /\ WorkerStep(w, Finished, <<>>)
    /\ UNCHANGED mutex

\* ------------------------------------------------------------------ UI thread
\* start_download, lines 566-581: the request is refused.
busy(slot, ws) == slot # 0 /\ isRunning(ws[slot])

invalid_request(mode, url_or_file, save_location) ==
    \/ mode = "single" /\ ~is_valid_url(url_or_file)
    \/ mode = "list" /\ (url_or_file = <<>> \/ ~isfile(url_or_file))
    \/ mode = "playlist" /\ ~is_valid_url(url_or_file)
    \/ save_location = <<>> \/ ~isdir(save_location)

FreeIds == {w \in Ids : workers[w].pc = "none"}

\* start_single_download / start_list_download / start_playlist_download and
\* start_download: a click on the enabled download button of `mode`, with `text`
\* and `folder` in the input fields.
start_download(mode, text, folder) ==
    LET url_or_file == strip(text)
        save_location == strip(folder)
        format_id == IF mode = "single" THEN menu[current].data ELSE <<"best">>
    IN /\ ui = "open"
       /\ btn[mode]
       /\ Len(queue) <= MaxPending
       /\ IF busy(worker, workers) \/ invalid_request(mode, url_or_file, save_location)
          THEN UNCHANGED vars
          ELSE /\ FreeIds # {}
               /\ LET id == CHOOSE w \in FreeIds : \A v \in FreeIds : w <= v
                  IN /\ btn' = [btn EXCEPT ![mode] = FALSE]
                     /\ bar' = setValue(bar, 0)
                     /\ worker' = id
                     /\ workers' = Collect([workers EXCEPT ![id] =
                                      DownloadWorker(mode, url_or_file, save_location, format_id)],
                                      id)
               /\ UNCHANGED <<mutex, queue, ui, menu, current, catalog>>

\* A queued progress signal reaches update_progress.
on_progress ==
    /\ ui = "open"
    /\ queue # <<>>
    /\ Head(queue).ev.k # "finished"
    /\ bar' = update_progress(bar, Head(queue).ev)
    /\ queue' = Tail(queue)
    /\ UNCHANGED <<workers, worker, mutex, btn, ui, menu, current, catalog>>

\* A queued finished signal reaches download_finished(success, button).
download_finished ==
    /\ ui = "open"
    /\ queue # <<>>
    /\ Head(queue).ev.k = "finished"
    /\ btn' = [btn EXCEPT ![Head(queue).button] = TRUE]
    /\ bar' = IF Head(queue).ev.a = 1 THEN bar ELSE setValue(bar, 0)
    /\ worker' = 0
    /\ workers' = Collect(workers, 0)
    /\ queue' = Tail(queue)
    /\ UNCHANGED <<mutex, ui, menu, current, catalog>>

\* DownloadWorker.stop, line 50, called on the UI thread: the flag is cleared.
stop_flag(wr) == [wr EXCEPT !.running = FALSE]

\* DownloadWorker.stop, line 51: the message is emitted on the UI thread and goes
\* straight to update_progress.
stop_emit(wr) == [wr EXCEPT !.log = Append(@, Msg("Stopped"))]

\* closeEvent, line 288: a worker that is running is told to stop; with none the
\* handler returns and the window closes.
closeEvent ==
    /\ ui = "open"
    /\ IF busy(worker, workers)
       THEN /\ workers' = [workers EXCEPT ![worker] = stop_flag(@)]
            /\ ui' = "stopping"
       ELSE /\ ui' = "closed"
            /\ UNCHANGED workers
    /\ UNCHANGED <<worker, mutex, queue, btn, bar, menu, current, catalog>>

\* closeEvent, lines 289-290: stop() emits its message and the UI thread enters
\* self.worker.wait().
stop ==
    /\ ui = "stopping"
    /\ workers' = [workers EXCEPT ![worker] = stop_emit(@)]
    /\ bar' = update_progress(bar, Msg("Stopped"))
    /\ ui' = "waiting"
    /\ UNCHANGED <<worker, mutex, queue, btn, menu, current, catalog>>

\* closeEvent, lines 290-292: self.worker.wait() returns when the thread has ended;
\* the handler returns and the window closes. The signals posted stay unhandled.
wait_returns ==
    /\ ui = "waiting"
    /\ ~isRunning(workers[worker])
    /\ ui' = "closed"
    /\ UNCHANGED <<workers, worker, mutex, queue, btn, bar, menu, current, catalog>>

\* The window has closed: app.exec_() returns and sys.exit ends the process, its
\* threads and objects with it, wherever the threads are.
Exit ==
    /\ ui = "closed"
    /\ ui' = "exited"
    /\ workers' = [w \in Ids |-> NoWorker]
    /\ worker' = 0
    /\ mutex' = 0
    /\ queue' = <<>>
    /\ UNCHANGED <<btn, bar, menu, current, catalog>>

\* ------------------------------------------------------------------ format menu
\* One entry of info['formats']. height 0: no 'height' key, or None. fs tells
\* whether the 'filesize' key is absent, holds None, or holds the integer `size`.
Format(ext, vcodec, height, format_id, fs, size) ==
    [ext |-> ext, vcodec |-> vcodec, height |-> height, format_id |-> format_id,
     fs |-> fs, size |-> size]

\* f.get('filesize', 0)
filesize(f) ==
    IF f.fs = "absent" THEN [none |-> FALSE, n |-> 0]
    ELSE IF f.fs = "none" THEN [none |-> TRUE, n |-> 0]
    ELSE [none |-> FALSE, n |-> f.size]

\* get_formats, lines 492-501: resolution_dict after the entries `formats`, starting
\* from d. err: a comparison with None raised TypeError.
RECURSIVE resolution_dict(_, _)
resolution_dict(formats, d) ==
    IF formats = <<>> THEN [err |-> FALSE, d |-> d]
    ELSE LET f == Head(formats)
             res_str == <<StrOf(f.height), "p">>
             size == filesize(f)
             entry == [format_id |-> f.format_id, filesize |-> size]
         IN IF f.ext = "mp4" /\ f.vcodec # "none" /\ f.height # 0 THEN
                IF res_str \notin DOMAIN d THEN
                    resolution_dict(Tail(formats), (res_str :> entry) @@ d)
                ELSE IF size.none \/ d[res_str].filesize.none THEN [err |-> TRUE, d |-> d]
                ELSE IF size.n > d[res_str].filesize.n THEN
                    resolution_dict(Tail(formats), (res_str :> entry) @@ d)
                ELSE resolution_dict(Tail(formats), d)
            ELSE resolution_dict(Tail(formats), d)

\* int(x[:-1]) of a resolution label
res_key(x) == IntOf(x[1])

\* sorted(keys, key=lambda x: int(x[:-1]), reverse=True)
RECURSIVE sorted_desc(_)
sorted_desc(keys) ==
    IF keys = {} THEN <<>>
    ELSE LET top == CHOOSE x \in keys : \A y \in keys : res_key(y) <= res_key(x)
         IN <<top>> \o sorted_desc(keys \ {top})

AudioEntry == [kind |-> "audio", res |-> <<>>, data |-> <<"bestaudio", "_audio_only">>]

\* get_formats, lines 503-522: the menu built from resolution_dict d.
build_menu(d) ==
    LET order == sorted_desc(DOMAIN d)
        video_audio_formats ==
            [j \in 1..Len(order) |->
                [kind |-> "va", res |-> order[j], data |-> <<d[order[j]].format_id>>]]
        video_only_formats ==
            [j \in 1..Len(order) |->
                [kind |-> "vo", res |-> order[j],
                 data |-> <<d[order[j]].format_id, "_video_only">>]]
    IN <<BestEntry>> \o video_audio_formats \o video_only_formats \o <<AudioEntry>>

EmptyDict == [x \in {} |-> 0]

\* YTDLWindow.get_formats: a click on "Get Formats" with `text` in the URL field;
\* extract_info returns `formats` or raises.
get_formats(text, o, formats) ==
    LET url == strip(text)
        r == resolution_dict(formats, EmptyDict)
    IN /\ ui = "open"
       /\ catalog' = IF is_valid_url(url) /\ o = "ok" THEN formats ELSE catalog
       /\ IF ~is_valid_url(url) \/ o # "ok" \/ r.err
          THEN UNCHANGED <<menu, current>>
          ELSE /\ menu' = build_menu(r.d)
               /\ current' = 1
       /\ UNCHANGED <<workers, worker, mutex, queue, btn, bar, ui>>

\* The user picks entry j of the format menu.
select_format(j) ==
    /\ ui = "open"
    /\ j \in 1..Len(menu)
    /\ current' = j
    /\ UNCHANGED <<workers, worker, mutex, queue, btn, bar, ui, menu, catalog>>

\* The entries a catalog may hold.
Formats ==
    {Format("mp4", "avc1", 1080, "137", "int", 500),
     Format("mp4", "avc1", 1080, "137b", "int", 300),
     Format("mp4", "avc1", 1080, "399", "absent", 0),
     Format("mp4", "avc1", 720, "136", "int", 200),
     Format("mp4", "avc1", 720, "22", "none", 0),
     Format("mp4", "avc1", 360, "18", "int", 200),
     Format("mp4", "avc1", 0, "sb0", "absent", 0),
     Format("webm", "vp9", 1080, "248", "int", 400),
     Format("mp4", "none", 0, "140", "int", 128)}

Catalogs == SeqsUpTo(Formats, MaxFormats)

\* ------------------------------------------------------------------ specifications
\* What the world outside the program may do: the results of the yt_dlp calls, the
\* samples yt_dlp hands to the hook, the list file's content, the errors of reading it.
\* texts: the titles yt_dlp reports and the texts of the exceptions raised.
Env(outcomes, samples, files, readErrors, texts) ==
    [outcomes |-> outcomes, samples |-> samples, files |-> files, readErrors |-> readErrors,
     texts |-> texts]

\* A title, and the text of an exception, that holds none of the texts
\* update_progress looks for; one that holds "Download completed"; one that holds
\* "Downloading:" after a number and ": ".
PlainText == <<"clip">>
CompletedText == <<"My", " ", "Download", " ", "completed">>
DownloadingText == <<"7", ":", " ", "Downloading", ":">>

\* Every sample and every text, with a list file of one line.
FullEnv ==
    Env(Outcomes, DownloadingSamples \cup {FinishedSample}, {<<U1 \o <<"\n">>>>},
        {"Exception"}, {PlainText, CompletedText, DownloadingText})

\* Every case of one download whose samples are well-formed.
SessionEnv ==
    Env(Outcomes, {Sample("downloading", "str", P50, "str"), FinishedSample}, ListFiles,
        ReadErrors, {PlainText})

\* The cases that the scheduling of threads and signals depends on.
PlainEnv == Env({"ok"}, {FinishedSample}, {<<U1 \o <<"\n">>>>}, {}, {PlainText})

WorkerNext(w, env) ==
    \/ run_lock(w)
    \/ check_network(w)
    \/ download_single(w)
    \/ extract_info(w, env)
    \/ download_playlist(w, env)
    \/ engine_sample(w, env)
    \/ engine_return(w, env)
    \/ download_list(w)
    \/ open_file(w, env)
    \/ emit(w)
    \/ list_next(w)
    \/ list_item(w)
    \/ list_end(w)
    \/ run_unlock(w)
    \/ thread_exit(w)

\* A click on a download button.
Click ==
    \E mode \in Modes :
      \E text \in (IF mode = "list" THEN FileInputs ELSE UrlInputs) :
        \E folder \in DirInputs : start_download(mode, text, folder)

\* The event loop of the open window hands a queued signal to its slot.
Handle ==
    \/ on_progress
    \/ download_finished

\* The user closes the window, and what follows.
Close ==
    \/ closeEvent
    \/ stop
    \/ wait_returns
    \/ Exit

UINext ==
    \/ Handle
    \/ Close

\* The window and its workers, the user clicking at any time.
Next ==
    \/ \E w \in Ids : WorkerNext(w, PlainEnv)
    \/ Click
    \/ UINext

Spec == Init /\ [][Next]_vars

\* The cases the end of a session depends on: every outcome of a call into
\* yt_dlp, a download that reports its end.
LiveEnv == Env(Outcomes, {FinishedSample}, {<<U1 \o <<"\n">>>>}, {}, {PlainText})

\* The window and its workers, the user clicking and closing at any time, any
\* call into yt_dlp returning or raising.
LiveNext ==
    \/ \E w \in Ids : WorkerNext(w, LiveEnv)
    \/ Click
    \/ UINext

\* Scheduling: a thread that can take a step takes one; a call into yt_dlp comes
\* back, returning or raising (socket_timeout, lines 83, 140, 171; timeout=5, line
\* 55); the event loop of the open window handles the signals queued; closeEvent,
\* once entered, runs on, and the process exits when the window has closed. A
\* thread waiting in lock() gets the mutex only if it stays free: QMutex promises
\* no order among the threads that wait for it. Nothing makes the user click or
\* close the window.
Fairness ==
    /\ \A w \in Ids : WF_vars(WorkerNext(w, LiveEnv))
    /\ WF_vars(on_progress)
    /\ WF_vars(download_finished)
    /\ WF_vars(stop)
    /\ WF_vars(wait_returns)
    /\ WF_vars(Exit)

LiveSpec == Init /\ [][LiveNext]_vars /\ Fairness

\* No worker exists and no signal waits: the previous download is over and handled.
Idle == queue = <<>> /\ \A w \in Ids : workers[w].pc = "none"

\* One download at a time with the best-quality format: the user clicks a download
\* button only when the window is idle.
SessionNext ==
    \/ \E w \in Ids : WorkerNext(w, SessionEnv)
    \/ Idle /\ Click
    \/ UINext

SessionSpec == Init /\ [][SessionNext]_vars

\* The catalogs of the URLs the user fetches formats for before a download.
SessionCatalogs == {<<>>, <<Format("mp4", "avc1", 720, "136", "int", 200)>>}

\* The user fetches the formats of the URL typed in, or picks a format.
PickFormat ==
    \/ \E formats \in SessionCatalogs : get_formats(U1, "ok", formats)
    \/ \E j \in 1..4 : select_format(j)

\* A click on the button of the list workflow with CompletedFile chosen.
ClickList == start_download("list", CompletedFile, <<"/dl">>)

\* One download at a time, in every case of it: any format of the menu, any
\* sample, any text.
FullNext ==
    \/ \E w \in Ids : WorkerNext(w, FullEnv)
    \/ Idle /\ Click
    \/ Idle /\ ClickList
    \/ Idle /\ PickFormat
    \/ UINext

FullSpec == Init /\ [][FullNext]_vars

\* The format menu: the user fetches formats and picks one, no download running.
\* The first fetch that finds formats meets any catalog, a later one the catalogs
\* of SessionCatalogs.
FormatNext ==
    \/ /\ catalog = <<>>
       /\ \E text \in UrlInputs : \E o \in {"ok", "DownloadError", "Exception"} :
            \E formats \in Catalogs : get_formats(text, o, formats)
    \/ /\ catalog # <<>>
       /\ \E o \in {"ok", "DownloadError"} :
            \E formats \in SessionCatalogs : get_formats(U1, o, formats)
    \/ \E j \in 1..(2 * MaxFormats + 2) : select_format(j)

FormatSpec == Init /\ [][FormatNext]_vars

\* ------------------------------------------------------------------ claims
Has(log, k) == \E j \in 1..Len(log) : log[j].k = k
Positions(log, k) == {j \in 1..Len(log) : log[j].k = k}

\* The body of run: from the network check to the end of the workflow.
InRunBody(wr) ==
    wr.pc \in {"net", "single", "probe", "playlist", "read", "open", "fetch", "check", "item",
              "end", "emit"}

\* A session is running: its thread has started and has not emitted finished.
SessionRunning(wr) == isRunning(wr) /\ ~Terminal(wr)

\* C1: at any time at most one worker is inside the body of run.
C1_OneJobInFlight == Cardinality({w \in Ids : InRunBody(workers[w])}) <= 1

\* C1 witness: a worker is inside the body of run while another one, started
\* after it, waits for the mutex.
C1_Witness ==
    \E a, b \in Ids : a # b /\ InRunBody(workers[a]) /\ mutex = a /\ workers[b].pc = "start"

\* C2: while a session is running, a start request changes nothing: no worker is
\* created, and the worker slot, the buttons and the progress value stay as they
\* are whenever a click is handled.
C2_StartWhileRunningRejected ==
    [][(\E w \in Ids : SessionRunning(workers[w]))
       => \A v \in Ids : workers[v].pc = "none" => workers'[v].pc # "start"]_vars

\* The stop request is entry s of the log of a list worker, and it came while
\* item i of n, i < n, was under way.
StoppedMidBatch(wr, s) ==
    /\ wr.mode = "list"
    /\ s \in Positions(wr.log, "Stopped")
    /\ \E j \in 1..(s - 1) :
         /\ wr.log[j].k = "ItemStarted"
         /\ wr.log[j].a < Len(wr.urls)
         /\ \A t \in (j + 1)..(s - 1) :
              wr.log[t].k \notin {"ItemStarted", "Completed", "ItemFailed", "finished"}

\* C3: a list batch stopped while item i of n (i < n) is under way announces no
\* further item and ends with the result false.
C3_CancelledBatchFails ==
    \A w \in Ids : \A s \in 1..Len(workers[w].log) :
      StoppedMidBatch(workers[w], s) =>
        /\ \A j \in (s + 1)..Len(workers[w].log) : workers[w].log[j].k # "ItemStarted"
        /\ \A j \in Positions(workers[w].log, "finished") : workers[w].log[j].a = 0

\* The worker was told to stop before it emitted finished.
StoppedBeforeEnd(wr) ==
    \E s \in Positions(wr.log, "Stopped") :
      \A j \in Positions(wr.log, "finished") : s < j

\* C4: a single or playlist session that was told to stop before its end never
\* ends with the result true.
C4_StoppedSessionFails ==
    \A w \in Ids :
      workers[w].mode \in {"single", "playlist"} /\ StoppedBeforeEnd(workers[w])
        => \A j \in Positions(workers[w].log, "finished") : workers[w].log[j].a = 0

\* The number of attempts the retry state allows.
maxAttempts == 3

\* C5: a single session whose every yt_dlp call fails with DownloadError has
\* called yt_dlp maxAttempts times when it ends.
C5_RetriedMaxAttempts ==
    \A w \in Ids :
      /\ workers[w].mode = "single"
      /\ Has(workers[w].log, "DownloadFailed")
      /\ ~Has(workers[w].log, "StartingDownload")
      => workers[w].calls = maxAttempts

\* The items a list worker has announced, in the order of the announcements.
Announced(log) == SelectSeq(log, LAMBDA e : e.k = "ItemStarted")

\* A batch that was not stopped and has ended: the list was read, no stop request
\* cleared the flag, and the worker is past its last emission.
BatchRanThrough(wr) ==
    /\ wr.mode = "list"
    /\ wr.pc \in {"unlock", "exit"}
    /\ Has(wr.log, "FoundUrls")
    /\ wr.running

\* C6: a batch that is not stopped attempts every URL once, in list order,
\* whatever errors yt_dlp raises on single items, and its result is true exactly
\* when no item failed.
C6_BatchAttemptsAll ==
    \A w \in Ids :
      BatchRanThrough(workers[w]) =>
        LET wr == workers[w]
        IN /\ Announced(wr.log) = [j \in 1..Len(wr.urls) |-> Ev("ItemStarted", j, wr.urls[j])]
           /\ wr.calls = Len(wr.urls)
           /\ \A j \in Positions(wr.log, "finished") :
                (wr.log[j].a = 1) <=> ~Has(wr.log, "ItemFailed")

\* C7: a session whose network check failed calls yt_dlp and reads the list
\* file never; a session that did either has passed the network check.
C7_NoEngineAfterFailedPreflight ==
    \A w \in Ids :
      LET wr == workers[w]
      IN /\ Has(wr.log, "NoInternet") => wr.calls = 0 /\ ~Has(wr.log, "ReadingFile")
         /\ wr.calls > 0 \/ Has(wr.log, "ReadingFile")
              => ~Has(wr.log, "NoInternet") /\ wr.pc \notin {"start", "net"}

\* C7 witness: a session has ended on the failed network check.
C7_Witness ==
    \E w \in Ids :
      /\ Has(workers[w].log, "NoInternet")
      /\ Terminal(workers[w])
      /\ workers[w].pc = "unlock"

\* C8: every finished(False) comes after a failure message of the same session.
C8_FailureMessageBeforeFalse ==
    \A w \in Ids : \A j \in Positions(workers[w].log, "finished") :
      workers[w].log[j].a = 0 =>
        \E t \in 1..(j - 1) : workers[w].log[t].k \in FailureMsgs

\* C8 witness: a session has ended with the result false, right after the message
\* of a failed network check, of a refused write or of a batch with failed items.
C8_Witness ==
    \E w \in Ids : \E j \in Positions(workers[w].log, "finished") :
      /\ workers[w].log[j].a = 0
      /\ j > 1
      /\ workers[w].log[j - 1].k \in {"NoInternet", "PermissionDenied", "SomeFailed"}

\* C9: item i + 1 of a batch is announced only after item i was reported
\* completed or failed.
C9_ItemsInOrder ==
    \A w \in Ids : \A j \in Positions(workers[w].log, "ItemStarted") :
      LET log == workers[w].log
      IN log[j].a > 1 =>
           \E s \in 1..(j - 1) :
             /\ log[s].k = "ItemStarted" /\ log[s].a = log[j].a - 1
             /\ \E t \in (s + 1)..(j - 1) :
                  \/ log[t].k = "Completed"
                  \/ log[t].k = "ItemFailed" /\ log[t].a = log[s].a

\* The entries of the menu that stand for a resolution of the catalog.
Resolved(m) == SelectSeq(m, LAMBDA e : e.kind \in {"va", "vo"})
StrictlyDescending(es) ==
    \A j \in 1..(Len(es) - 1) : res_key(es[j].res) > res_key(es[j + 1].res)

\* C10: the menu is not empty, starts with the best-available entry,
\* and its resolution entries taken in menu order descend strictly.
C10_MenuDescending ==
    /\ menu # <<>>
    /\ menu[1] = BestEntry
    /\ StrictlyDescending(Resolved(menu))

\* The entries of catalog c that get_formats keeps for height h: mp4 with video.
VideoEntries(c, h) ==
    {j \in 1..Len(c) : c[j].ext = "mp4" /\ c[j].vcodec # "none" /\ c[j].height = h}

\* The known file size of a catalog entry, an unknown size counting as 0.
KnownSize(f) == IF f.fs = "int" THEN f.size ELSE 0

\* A height of the catalog with two kept entries of different sizes.
Contested(c, h) ==
    \E i, j \in VideoEntries(c, h) : KnownSize(c[i]) # KnownSize(c[j])

\* The menu names, for height h, a largest entry of catalog c.
LargestWins(c, h) ==
    \E k \in 1..Len(menu) :
      /\ menu[k].kind = "va"
      /\ menu[k].res = <<StrOf(h), "p">>
      /\ \E i \in VideoEntries(c, h) :
           /\ menu[k].data = <<c[i].format_id>>
           /\ \A j \in VideoEntries(c, h) : KnownSize(c[j]) <= KnownSize(c[i])

Heights == {360, 720, 1080}

\* C11: for every resolution of the fetched catalog that has two mp4 video entries
\* of different sizes, the menu entry of that resolution carries the identifier
\* of the entry with the largest known size, an unknown size counting as 0.
C11_LargestSizeWins ==
    \A h \in Heights : Contested(catalog, h) => LargestWins(catalog, h)

\* The catalog holds no audio-only entry.
NoAudioOnly(c) == \A j \in 1..Len(c) : c[j].vcodec # "none"

\* The selector ends in the generic "best audio, same container" expression.
GenericAudio(id) == <<id, "+", "bestaudio[ext=mp4]", "/", "best[ext=mp4]">>

\* C12: with no audio-only entry in the fetched catalog, the selector of
\* every resolution entry of the menu is the entry's identifier with the generic
\* "best audio, same container" expression.
C12_SelectorFallsBack ==
    NoAudioOnly(catalog) =>
      \A k \in 1..Len(menu) :
        menu[k].kind \in {"va", "vo"} =>
          format_selector(menu[k].data) = GenericAudio(menu[k].data[1])

\* C13: no sample handed to the progress hook makes the hook raise into yt_dlp
\* and end the download: no failure message of a session reports the
\* AttributeError of a sample whose percent, speed or eta is not a string.
C13_BadSampleSwallowed ==
    \A w \in Ids : \A j \in 1..Len(workers[w].log) :
      workers[w].log[j].p # StripError

\* The lines of a file, trimmed, that are not blank and are valid references.
ValidLines(lines) ==
    SelectSeq([j \in 1..Len(lines) |-> strip(lines[j])],
              LAMBDA u : u # <<>> /\ is_valid_url(u))

\* The list file of the worker could not be read.
Unreadable(wr) ==
    \E k \in {"FileNotFound", "FilePermission", "BadEncoding", "ReadError"} : Has(wr.log, k)

\* The list worker has just read its file: download_list has the result of
\* read_url_file and has not reached the loop head or the end of run.
JustRead(wr) ==
    /\ wr.mode = "list"
    /\ Has(wr.log, "ReadingFile")
    /\ wr.pc \in {"check", "unlock"}
    /\ \A k \in {"ItemStarted", "AllOk", "SomeFailed"} : ~Has(wr.log, k)

\* C14: a list worker that has read its file holds exactly the valid lines of
\* the file, trimmed and in file order, and its batch fails at that point exactly
\* when there is none or the file could not be read.
C14_ListFileRead ==
    \A w \in Ids :
      LET wr == workers[w]
      IN JustRead(wr) =>
           /\ ~Unreadable(wr) => wr.urls = ValidLines(wr.lines)
           /\ Has(wr.log, "NoValidUrls") <=> (Unreadable(wr) \/ ValidLines(wr.lines) = <<>>)
           /\ Has(wr.log, "NoValidUrls") <=> ~Has(wr.log, "FoundUrls")

\* C14 witness: a file of two lines, one of them invalid or blank, was read and
\* the batch goes on with the one valid reference.
C14_Witness ==
    \E w \in Ids :
      /\ workers[w].pc = "check"
      /\ Len(workers[w].lines) = 2
      /\ Len(workers[w].urls) = 1
      /\ Has(workers[w].log, "FoundUrls")

\* The number of finished signals the worker has emitted.
Finishes(wr) == Cardinality(Positions(wr.log, "finished"))

\* C15: a worker emits finished never twice, not before its workflow ends, and
\* once by the time run reaches its finally clause; it holds the mutex when it
\* emits the signal and has released it when run returns.
C15_FinishedExactlyOnce ==
    \A w \in Ids :
      LET wr == workers[w]
      IN /\ Finishes(wr) <= 1
         /\ wr.pc \in {"unlock", "exit"} => Finishes(wr) = 1
         /\ InRunBody(wr) => Finishes(wr) = 0 /\ mutex = w
         /\ wr.pc = "unlock" => mutex = w
         /\ wr.pc = "exit" => mutex # w

\* C15 witness: run has returned from a batch that was stopped, after one
\* finished signal, and the mutex is free.
C15_Witness ==
    \E w \in Ids :
      /\ workers[w].pc = "exit"
      /\ workers[w].mode = "list"
      /\ Has(workers[w].log, "Stopped")
      /\ Has(workers[w].log, "ItemStarted")
      /\ Finishes(workers[w]) = 1
      /\ mutex = 0

\* C16: the finished signal of a worker is the last thing the worker emits: no
\* progress message follows it.
C16_NothingAfterFinished ==
    \A w \in Ids : \A j \in Positions(workers[w].log, "finished") :
      j = Len(workers[w].log)

\* A start of workflow m was accepted: its worker waits to enter run.
Started(m) == \E w \in Ids : workers[w].pc = "start" /\ workers[w].mode = m

\* The step handles a finished signal: download_finished runs.
Handling ==
    /\ ui = "open" /\ ui' = "open"
    /\ queue # <<>> /\ Head(queue).ev.k = "finished"
    /\ queue' = Tail(queue)

\* The step accepts a start of workflow m: a new worker for a valid request,
\* held by the slot, while the slot named no running worker.
Accepting(m) ==
    /\ ~busy(worker, workers)
    /\ worker' # 0
    /\ workers[worker'].pc = "none"
    /\ workers'[worker'].pc = "start"
    /\ workers'[worker'].mode = m
    /\ ~invalid_request(m, workers'[worker'].url, workers'[worker'].dest)

\* What a step may do to the slot, the buttons and the progress value.
StartAndTerminalSteps ==
    /\ Handling =>
         /\ worker' = 0
         /\ btn'[Head(queue).button]
         /\ Head(queue).ev.a = 0 => bar' = 0
    /\ \A m \in Modes :
         /\ btn[m] /\ ~btn'[m] => Accepting(m)
         /\ ~btn[m] /\ btn'[m] => Handling /\ Head(queue).button = m
         /\ Accepting(m) => btn[m] /\ ~btn'[m] /\ bar' = 0
    /\ worker' # worker /\ worker' # 0 => \E m \in Modes : Accepting(m)

C17_HandledDespiteClose == \A m \in Modes : Started(m) ~> btn[m]

====
